---- MODULE Spec2Model ----
\* A model of android_log (src/src/lib.rs): the LogBuilder, the AndroidLogger,
\* the one-time registration with the `log` facade and the per-record path
\* from a LogRecord to one call of __android_log_write.
\*
\* Strings are sequences of characters; NUL stands for the byte 0.  A CString
\* is the byte sequence with its terminating NUL, and the native side reads a
\* C string up to its first NUL (CStr).
\*
\* A panic (the unwrap() of lines 110 and 130) is an outcome of the call: the
\* model records it as res = "panic" and follows the run on (the unwinding is
\* caught, or it ended another thread), so that what the program can do after
\* it is still visible.
EXTENDS Naturals, Sequences, FiniteSets

\* The registration state belongs to the `log` facade, which lib.rs reaches
\* through log::set_logger (line 93) and the application through the logging
\* macros: a state that goes from UNINITIALIZED through INITIALIZING to
\* INITIALIZED, the boxed logger, and the maximum level (Off until a logger
\* sets it).  A macro hands a record to the installed logger when the record's
\* level is within the maximum level and the state is INITIALIZED.
VARIABLES
    builder,               \* the application's LogBuilder (lines 71-74), <<>> when it has none
    logger,                \* the application's AndroidLogger (lines 40-43) not yet installed, <<>> when none
    LOG_STATE,             \* facade: registration state of the global logger (line 93)
    LOGGER,                \* facade: the installed Box<Log> (line 95), <<>> before
    MAX_LOG_LEVEL_FILTER,  \* facade: global maximum level (line 94)
    written,               \* calls of __android_log_write (line 121) made by the last operation
    invoked,               \* calls of a formatter (line 110) made by the last operation
    last,                  \* the last operation, its inputs and its outcome
    everInit,              \* history: some init call has reached log::set_logger
    firstLogger,           \* history: the logger of the first successful init
    pc,                    \* threads: position of each thread inside init (lines 92-97)
    self,                  \* threads: the logger each thread passes to init
    ret,                   \* threads: what init returned to each thread
    slotWrites,            \* history: number of stores to LOGGER
    setBy                  \* history: the formatter last given to format() for each logger

vars == <<builder, logger, LOG_STATE, LOGGER, MAX_LOG_LEVEL_FILTER, written,
          invoked, last, everInit, firstLogger, pc, self, ret, slotWrites, setBy>>

app == <<builder, logger>>
registration == <<LOG_STATE, LOGGER, MAX_LOG_LEVEL_FILTER>>
history == <<everInit, firstLogger, setBy>>
threads == <<pc, self, ret, slotWrites>>

\* ---------------------------------------------------------------- bounds

NThreads == 3

Threads == 1..NThreads

\* ---------------------------------------------------------------- strings

NUL == "\\0"

RECURSIVE HasNul(_)
HasNul(s) == IF s = <<>> THEN FALSE
             ELSE IF Head(s) = NUL THEN TRUE ELSE HasNul(Tail(s))

\* std::ffi::CString::new: refuses interior NUL bytes, else appends the terminator.
CStringNew(s) == IF HasNul(s) THEN [ok |-> FALSE, bytes |-> <<>>]
                 ELSE [ok |-> TRUE, bytes |-> s \o <<NUL>>]

\* What the native side reads through as_ptr(): the bytes before the first NUL.
RECURSIVE CStr(_)
CStr(bytes) == IF bytes = <<>> \/ Head(bytes) = NUL THEN <<>>
               ELSE <<Head(bytes)>> \o CStr(Tail(bytes))

\* ---------------------------------------------------------------- inputs

Tags == { <<"A">>, <<"B">>, <<"A", NUL, "B">> }

LogLevel == <<"Error", "Warn", "Info", "Debug", "Trace">>
LogLevelFilter == <<"Off", "Error", "Warn", "Info", "Debug", "Trace">>
Levels == { LogLevel[i] : i \in DOMAIN LogLevel }

Targets == { <<"m">>, <<"t">> }
ModulePaths == { <<"m">> }
Args == { <<"h">>, <<"h", NUL, "x">> }

LogRecord == [level : Levels, target : Targets, module_path : ModulePaths, args : Args]
Metadata(record) == [level |-> record.level, target |-> record.target]
LogMetadata == { Metadata(r) : r \in LogRecord }

\* ---------------------------------------------------------------- formatters

\* A faulty variant of DefaultFormat: the record's target in place of its module path.
DefaultFormat_Target(record) == record.target \o <<":", " ">> \o record.args

DefaultFormat(record) == record.module_path \o <<":", " ">> \o record.args

TargetDashFormat(record) == record.target \o <<" ", "-", " ">> \o record.args

ArgsFormat(record) == record.args

CustomFormatters == {"target_dash", "args"}
Formatters == {"default"} \cup CustomFormatters

Render(f, record) ==
    CASE f = "default" -> DefaultFormat(record)
      [] f = "target_dash" -> TargetDashFormat(record)
      [] f = "args" -> ArgsFormat(record)

\* ---------------------------------------------------------------- severity

android_LogPriority ==
    <<"UNKNOWN", "DEFAULT", "VERBOSE", "DEBUG", "INFO", "WARN", "ERROR", "FATAL", "SILENT">>

\* `prio as _`: the integer code of a native priority.
PrioCode(p) == (CHOOSE i \in DOMAIN android_LogPriority : android_LogPriority[i] = p) - 1

\* A faulty variant of Priority: Trace sent with the priority of Debug.
Priority_TraceAsDebug(level) ==
    CASE level = "Error" -> "ERROR"
      [] level = "Warn"  -> "WARN"
      [] level = "Info"  -> "INFO"
      [] level = "Debug" -> "DEBUG"
      [] level = "Trace" -> "DEBUG"

Priority(level) ==
    CASE level = "Error" -> "ERROR"
      [] level = "Warn"  -> "WARN"
      [] level = "Info"  -> "INFO"
      [] level = "Debug" -> "DEBUG"
      [] level = "Trace" -> "VERBOSE"

\* Facade ordering of levels and filters: Off < Error < Warn < Info < Debug < Trace.
FilterRank(f) == (CHOOSE i \in DOMAIN LogLevelFilter : LogLevelFilter[i] = f) - 1
LevelRank(l) == FilterRank(l)

LogLevelFilter_max == LogLevelFilter[Len(LogLevelFilter)]

\* ---------------------------------------------------------------- builder and logger

None == <<>>
Some(x) == <<x>>

LogBuilder_new(tag) ==
    LET c == CStringNew(tag)
    IN IF c.ok THEN [res |-> "Ok", value |-> Some([tag |-> c.bytes, format |-> "default"])]
       ELSE [res |-> "panic", value |-> None]

\* A faulty variant of LogBuilder_format: only the first formatter given is kept.
LogBuilder_format_KeepFirst(b, f) ==
    IF b.format = "default" THEN [b EXCEPT !.format = f] ELSE b

LogBuilder_format(b, f) == [b EXCEPT !.format = f]

\* A faulty variant of LogBuilder_build: the tag is encoded again, terminator included,
\* and the unwrap() of that fails.
LogBuilder_build_Revalidate(b) ==
    IF CStringNew(b.tag).ok
    THEN [res |-> "Ok", value |-> Some([tag |-> b.tag, format |-> b.format])]
    ELSE [res |-> "panic", value |-> None]

LogBuilder_build(b) == [res |-> "Ok", value |-> Some([tag |-> b.tag, format |-> b.format])]

AndroidLogger_new(tag) ==
    LET b == LogBuilder_new(tag)
    IN IF b.res = "Ok" THEN LogBuilder_build(b.value[1]) ELSE [res |-> "panic", value |-> None]

enabled(l, metadata) == TRUE

\* One call of a formatter: which one, and the String it returned.
Invocation(f, record) == [format |-> f, out |-> Render(f, record)]

\* A faulty variant of log: the text goes to the native write unchecked, which reads it
\* up to its first NUL.
log_Truncate(l, record) ==
    [res |-> "Ok",
     written |-> << [prio |-> PrioCode(Priority(record.level)),
                     tag |-> CStr(l.tag),
                     msg |-> CStr(Render(l.format, record) \o <<NUL>>)] >>,
     invoked |-> <<Invocation(l.format, record)>>]

log(l, record) ==
    IF ~enabled(l, Metadata(record))
    THEN [res |-> "Ok", written |-> <<>>, invoked |-> <<>>]
    ELSE LET format == CStringNew(Render(l.format, record))
             prio == Priority(record.level)
         IN IF ~format.ok
            THEN [res |-> "panic", written |-> <<>>, invoked |-> <<Invocation(l.format, record)>>]
            ELSE [res |-> "Ok",
                  written |-> << [prio |-> PrioCode(prio),
                                  tag |-> CStr(l.tag),
                                  msg |-> CStr(format.bytes)] >>,
                  invoked |-> <<Invocation(l.format, record)>>]

\* ---------------------------------------------------------------- facade

\* A faulty variant of set_logger: a later call replaces the installed logger.
set_logger_Replace(reg, l, max_level) ==
    [res |-> IF reg.state = "UNINITIALIZED" THEN "Ok" ELSE "Err",
     reg |-> [state |-> "INITIALIZED", logger |-> Some(l), max |-> max_level]]

\* log::set_logger(make_logger): succeeds once per process; only then is
\* make_logger run, which sets the maximum level and boxes the logger.
set_logger(reg, l, max_level) ==
    IF reg.state = "UNINITIALIZED"
    THEN [res |-> "Ok",
          reg |-> [state |-> "INITIALIZED", logger |-> Some(l), max |-> max_level]]
    ELSE [res |-> "Err", reg |-> reg]

Registration == [state |-> LOG_STATE, logger |-> LOGGER, max |-> MAX_LOG_LEVEL_FILTER]

\* A faulty variant of AndroidLogger_init: the closure leaves the maximum level as it is.
AndroidLogger_init_NoMax(reg, l) == set_logger(reg, l, reg.max)

AndroidLogger_init(reg, l) == set_logger(reg, l, LogLevelFilter_max)

\* `constructed.init()`: the construction may have panicked, and then init is
\* never reached; value is the logger that was passed to set_logger.
ThenInit(reg, constructed) ==
    IF constructed.res = "Ok"
    THEN LET r == AndroidLogger_init(reg, constructed.value[1])
         IN [res |-> r.res, reg |-> r.reg, reached |-> TRUE, value |-> constructed.value]
    ELSE [res |-> "panic", reg |-> reg, reached |-> FALSE, value |-> None]

LogBuilder_init(reg, b) == ThenInit(reg, LogBuilder_build(b))

init(reg, tag) == ThenInit(reg, AndroidLogger_new(tag))

\* The facade's log! macro: the record reaches the installed logger when its
\* level passes the global maximum and a logger is installed.
FacadeDispatch(record) ==
    IF LevelRank(record.level) <= FilterRank(MAX_LOG_LEVEL_FILTER) /\ LOG_STATE = "INITIALIZED"
    THEN LET r == log(LOGGER[1], record)
         IN [res |-> r.res, written |-> r.written, invoked |-> r.invoked, via |-> LOGGER]
    ELSE [res |-> "Ok", written |-> <<>>, invoked |-> <<>>, via |-> None]

\* ---------------------------------------------------------------- state

\* The last operation: its name and result, the tag, the record (or metadata)
\* and the logger it was given, and whether it was the first init call to
\* reach log::set_logger.
Op(op, res, tag, rec, via, first) ==
    [op |-> op, res |-> res, tag |-> tag, rec |-> rec, via |-> via, first |-> first]

Init ==
    /\ builder = None
    /\ logger = None
    /\ LOG_STATE = "UNINITIALIZED"
    /\ LOGGER = None
    /\ MAX_LOG_LEVEL_FILTER = "Off"
    /\ written = <<>>
    /\ invoked = <<>>
    /\ last = Op("start", "Ok", None, None, None, FALSE)
    /\ everInit = FALSE
    /\ firstLogger = None
    /\ setBy = [builder |-> None, logger |-> None, global |-> None]
    /\ pc = [t \in Threads |-> "idle"]
    /\ self = [t \in Threads |-> None]
    /\ ret = [t \in Threads |-> "none"]
    /\ slotWrites = 0

\* ---------------------------------------------------------------- operations

\* The registration variables after an init call that returned r, and the
\* history of it: f is the formatter last given to format() for its logger.
Install(r, f) ==
    /\ LOG_STATE' = r.reg.state
    /\ LOGGER' = r.reg.logger
    /\ MAX_LOG_LEVEL_FILTER' = r.reg.max
    /\ everInit' = (everInit \/ r.reached)
    /\ firstLogger' = IF r.res = "Ok" /\ ~everInit THEN r.value ELSE firstLogger
    /\ setBy' = [setBy EXCEPT !.global = IF r.res = "Ok" THEN f ELSE @]

\* LogBuilder::new(tag)
Call_LogBuilder_new(tag) ==
    LET r == LogBuilder_new(tag)
    IN /\ builder' = IF r.res = "Ok" THEN r.value ELSE builder
       /\ setBy' = [setBy EXCEPT !.builder = IF r.res = "Ok" THEN None ELSE @]
       /\ last' = Op("LogBuilder::new", r.res, Some(tag), None, None, FALSE)
       /\ written' = <<>>
       /\ invoked' = <<>>
       /\ UNCHANGED <<logger, registration, everInit, firstLogger, threads>>

\* builder.format(f)
Call_LogBuilder_format(f) ==
    /\ builder # None
    /\ builder' = Some(LogBuilder_format(builder[1], f))
    /\ setBy' = [setBy EXCEPT !.builder = Some(f)]
    /\ last' = Op("LogBuilder::format", "Ok", None, None, None, FALSE)
    /\ written' = <<>>
    /\ invoked' = <<>>
    /\ UNCHANGED <<logger, registration, everInit, firstLogger, threads>>

\* builder.build(): consumes the builder
Call_LogBuilder_build ==
    /\ builder # None
    /\ LET r == LogBuilder_build(builder[1])
       IN /\ logger' = IF r.res = "Ok" THEN r.value ELSE logger
          /\ setBy' = [setBy EXCEPT !.builder = None,
                                    !.logger = IF r.res = "Ok" THEN setBy.builder ELSE @]
          /\ last' = Op("LogBuilder::build", r.res, None, None, None, FALSE)
    /\ builder' = None
    /\ written' = <<>>
    /\ invoked' = <<>>
    /\ UNCHANGED <<registration, everInit, firstLogger, threads>>

\* builder.init(): consumes the builder
Call_LogBuilder_init ==
    /\ builder # None
    /\ LET r == LogBuilder_init(Registration, builder[1])
       IN /\ Install(r, setBy.builder)
          /\ last' = Op("LogBuilder::init", r.res, None, None, r.value,
                      r.reached /\ ~everInit)
    /\ builder' = None
    /\ written' = <<>>
    /\ invoked' = <<>>
    /\ UNCHANGED <<logger, threads>>

\* AndroidLogger::new(tag)
Call_AndroidLogger_new(tag) ==
    LET r == AndroidLogger_new(tag)
    IN /\ logger' = IF r.res = "Ok" THEN r.value ELSE logger
       /\ setBy' = [setBy EXCEPT !.logger = IF r.res = "Ok" THEN None ELSE @]
       /\ last' = Op("AndroidLogger::new", r.res, Some(tag), None, None, FALSE)
       /\ written' = <<>>
       /\ invoked' = <<>>
       /\ UNCHANGED <<builder, registration, everInit, firstLogger, threads>>

\* logger.init(): consumes the logger
Call_AndroidLogger_init ==
    /\ logger # None
    /\ LET r == ThenInit(Registration, [res |-> "Ok", value |-> logger])
       IN /\ Install(r, setBy.logger)
          /\ last' = Op("AndroidLogger::init", r.res, None, None, r.value,
                      r.reached /\ ~everInit)
    /\ logger' = None
    /\ written' = <<>>
    /\ invoked' = <<>>
    /\ UNCHANGED <<builder, threads>>

\* android_log::init(tag)
Call_init(tag) ==
    LET r == init(Registration, tag)
    IN /\ Install(r, None)
       /\ last' = Op("init", r.res, Some(tag), None, r.value,
                     r.reached /\ ~everInit)
       /\ written' = <<>>
       /\ invoked' = <<>>
       /\ UNCHANGED <<builder, logger, threads>>

\* Log::enabled(&logger, metadata) on the application's own logger
Call_enabled(metadata) ==
    /\ logger # None
    /\ last' = Op("enabled", IF enabled(logger[1], metadata) THEN "true" ELSE "false",
                  None, Some(metadata), logger, FALSE)
    /\ written' = <<>>
    /\ invoked' = <<>>
    /\ UNCHANGED <<app, registration, history, threads>>

\* Log::log(&logger, record) on the application's own logger
Call_log(record) ==
    /\ logger # None
    /\ LET r == log(logger[1], record)
       IN /\ last' = Op("log", r.res, None, Some(record), logger, FALSE)
          /\ written' = r.written
          /\ invoked' = r.invoked
    /\ UNCHANGED <<app, registration, history, threads>>

\* A logging macro of the facade (trace!, debug!, info!, warn!, error!)
Call_macro(record) ==
    /\ LET r == FacadeDispatch(record)
       IN /\ last' = Op("macro", r.res, None, Some(record), r.via, FALSE)
          /\ written' = r.written
          /\ invoked' = r.invoked
    /\ UNCHANGED <<app, registration, history, threads>>

Next ==
    \/ \E tag \in Tags : Call_LogBuilder_new(tag)
    \/ \E f \in CustomFormatters : Call_LogBuilder_format(f)
    \/ Call_LogBuilder_build
    \/ Call_LogBuilder_init
    \/ \E tag \in Tags : Call_AndroidLogger_new(tag)
    \/ Call_AndroidLogger_init
    \/ \E tag \in Tags : Call_init(tag)
    \/ \E metadata \in LogMetadata : Call_enabled(metadata)
    \/ \E record \in LogRecord : Call_log(record)
    \/ \E record \in LogRecord : Call_macro(record)

Spec == Init /\ [][Next]_vars

\* ---------------------------------------------------------------- threads

\* Threads that each call AndroidLogger::init once, on a logger of their own,
\* and use the facade's macros before and after.  set_logger is followed
\* through its atomic steps: the compare-and-swap of the registration state,
\* the closure of lines 93-96 (run by the winner only), and the store that
\* publishes the logger.

ThreadLoggers ==
    { AndroidLogger_new(tag).value[1] : tag \in { t \in Tags : AndroidLogger_new(t).res = "Ok" } }

\* A faulty variant of compare_and_swap: the swap is made whatever the cell holds.
compare_and_swap_Blind(cell, current, new) == [old |-> current, now |-> new]

\* AtomicUsize::compare_and_swap(current, new): the value read, and the value left.
compare_and_swap(cell, current, new) ==
    [old |-> cell, now |-> IF cell = current THEN new ELSE cell]

\* logger.init() is entered: self moves into the call
T_call(t, l) ==
    /\ pc[t] = "idle"
    /\ self' = [self EXCEPT ![t] = Some(l)]
    /\ pc' = [pc EXCEPT ![t] = "cas"]
    /\ UNCHANGED <<app, registration, written, invoked, last, history, ret, slotWrites>>

\* set_logger: claim the registration, or return the error
T_cas(t) ==
    /\ pc[t] = "cas"
    /\ LET c == compare_and_swap(LOG_STATE, "UNINITIALIZED", "INITIALIZING")
       IN /\ LOG_STATE' = c.now
          /\ IF c.old = "UNINITIALIZED"
             THEN /\ pc' = [pc EXCEPT ![t] = "make"]
                  /\ UNCHANGED <<self, ret>>
             ELSE /\ pc' = [pc EXCEPT ![t] = "done"]
                  /\ ret' = [ret EXCEPT ![t] = "Err"]
                  /\ self' = [self EXCEPT ![t] = None]
    /\ everInit' = TRUE
    /\ UNCHANGED <<app, LOGGER, MAX_LOG_LEVEL_FILTER, written, invoked, last,
                   firstLogger, setBy, slotWrites>>

\* the closure: max_level.set(LogLevelFilter::max()); Box::new(self), stored as the logger
T_make(t) ==
    /\ pc[t] = "make"
    /\ MAX_LOG_LEVEL_FILTER' = LogLevelFilter_max
    /\ LOGGER' = self[t]
    /\ slotWrites' = slotWrites + 1
    /\ firstLogger' = IF firstLogger = None THEN self[t] ELSE firstLogger
    /\ self' = [self EXCEPT ![t] = None]
    /\ pc' = [pc EXCEPT ![t] = "publish"]
    /\ UNCHANGED <<app, LOG_STATE, written, invoked, last, everInit, setBy, ret>>

\* set_logger: publish the logger and return Ok
T_publish(t) ==
    /\ pc[t] = "publish"
    /\ LOG_STATE' = "INITIALIZED"
    /\ ret' = [ret EXCEPT ![t] = "Ok"]
    /\ pc' = [pc EXCEPT ![t] = "done"]
    /\ UNCHANGED <<app, LOGGER, MAX_LOG_LEVEL_FILTER, written, invoked, last,
                   history, self, slotWrites>>

\* a logging macro of the facade, from some thread that is not inside init
T_macro(record) ==
    /\ { t \in Threads : pc[t] \in {"idle", "done"} } # {}
    /\ Call_macro(record)

NextConc ==
    \/ \E t \in Threads, l \in ThreadLoggers : T_call(t, l)
    \/ \E t \in Threads : T_cas(t)
    \/ \E t \in Threads : T_make(t)
    \/ \E t \in Threads : T_publish(t)
    \/ \E record \in LogRecord : T_macro(record)

SpecConc == Init /\ [][NextConc]_vars

\* ---------------------------------------------------------------- properties

InitOps == {"init", "AndroidLogger::init", "LogBuilder::init"}
LogOps == {"log", "macro"}
ConstructOps == {"LogBuilder::new", "AndroidLogger::new", "init"}

\* The one native write a logger l makes for a record whose rendered text is
\* text: the code of the priority, the tag without its terminator, the text.
WriteOf(l, record, text) ==
    [prio |-> PrioCode(Priority(record.level)),
     tag |-> SubSeq(l.tag, 1, Len(l.tag) - 1),
     msg |-> text]

\* What the sink receives for a record rendered as text: the write, or nothing
\* when the text holds a NUL.
Delivered(l, record, text) ==
    IF HasNul(text) THEN <<>> ELSE <<WriteOf(l, record, text)>>

C2_SeverityMapping ==
    /\ \A l \in Levels : Priority(l) \in {"ERROR", "WARN", "INFO", "DEBUG", "VERBOSE"}
    /\ \A a, b \in Levels : a # b => Priority(a) # Priority(b)
    /\ \A a, b \in Levels :
           LevelRank(a) < LevelRank(b) => PrioCode(Priority(a)) > PrioCode(Priority(b))
    /\ (last.op \in LogOps /\ written # <<>>) =>
           written[1].prio =
               PrioCode(CASE last.rec[1].level = "Error" -> "ERROR"
                          [] last.rec[1].level = "Warn"  -> "WARN"
                          [] last.rec[1].level = "Info"  -> "INFO"
                          [] last.rec[1].level = "Debug" -> "DEBUG"
                          [] last.rec[1].level = "Trace" -> "VERBOSE")

\* C2 witness: a Trace record was written, with the code of VERBOSE.
C2_Witness ==
    /\ last.op \in LogOps /\ written # <<>>
    /\ last.rec[1].level = "Trace"
    /\ written[1].prio = 2

C4_DropAndContinue ==
    (last.op \in LogOps /\ invoked # <<>> /\ HasNul(invoked[1].out)) =>
        (written = <<>> /\ last.res = "Ok")

\* C5: constructing with a tag that holds a NUL returns the InvalidTag error
\* to the caller; no logger comes out of it to be installed, and nothing is
\* written.
C5_InvalidTag ==
    (last.op \in ConstructOps /\ HasNul(last.tag[1])) =>
        (last.res = "InvalidTag" /\ written = <<>> /\ last.via = None)

\* C6: however the init calls of the threads interleave, the logger slot is
\* stored at most once, at most one call returns Ok and every other call the
\* SetLoggerError (exactly one Ok once every call made has returned); once a
\* logger is installed no step changes the registration state or the slot,
\* and every native write made through the facade is that logger's.
C6_ConcurrentInstall ==
    /\ [](/\ slotWrites <= 1
          /\ Cardinality({ t \in Threads : ret[t] = "Ok" }) <= 1
          /\ \A t \in Threads : (pc[t] = "done") <=> (ret[t] \in {"Ok", "Err"})
          /\ ((\A t \in Threads : pc[t] \in {"idle", "done"})
                 /\ (\E t \in Threads : pc[t] = "done"))
               => Cardinality({ t \in Threads : ret[t] = "Ok" }) = 1
          /\ (LOG_STATE = "INITIALIZED") <=> (\E t \in Threads : ret[t] = "Ok")
          /\ LOG_STATE = "INITIALIZED" => (LOGGER # None /\ LOGGER = firstLogger)
          /\ (last.op = "macro" /\ written # <<>>) =>
                 /\ LOG_STATE = "INITIALIZED" /\ last.via = firstLogger
                 /\ written = <<WriteOf(firstLogger[1], last.rec[1],
                                        Render(firstLogger[1].format, last.rec[1]))>>)
    /\ [][LOG_STATE = "INITIALIZED" => UNCHANGED <<LOG_STATE, LOGGER>>]_vars

\* C6 witness: every thread has called init and returned, one of them with
\* Ok, and a record logged afterwards was written.
C6_Witness ==
    /\ \A t \in Threads : pc[t] = "done"
    /\ Cardinality({ t \in Threads : ret[t] = "Err" }) = NThreads - 1
    /\ last.op = "macro" /\ written # <<>>

\* The native write, and the one formatter call, of a log call on a logger for
\* which f was the formatter last given to format().
UsesFormatter(f) ==
    /\ invoked = << [format |-> f, out |-> Render(f, last.rec[1])] >>
    /\ written = Delivered(last.via[1], last.rec[1], invoked[1].out)

\* C7: a log call on a logger built after calls of format() invokes the
\* formatter given last, once, and no other; the message of its native write
\* is that formatter's output (which is not written when it holds a NUL).
C7_CustomFormatter ==
    /\ (last.op = "log" /\ setBy.logger # None) => UsesFormatter(setBy.logger[1])
    /\ (last.op = "macro" /\ last.via # None /\ setBy.global # None) =>
           UsesFormatter(setBy.global[1])
    /\ (builder # None /\ setBy.builder # None) => builder[1].format = setBy.builder[1]

\* C7 witness: the installed logger was built with a custom formatter and a
\* record went through it to the sink, not in the default format.
C7_Witness ==
    /\ last.op = "macro" /\ setBy.global = Some("target_dash")
    /\ written # <<>>
    /\ written[1].msg = <<"t", " ", "-", " ", "h">>
    /\ written[1].msg # DefaultFormat(last.rec[1])

\* C8: a successful install sets the maximum level to the most verbose one and
\* it stays there; enabled answers true; so after an install every record, of
\* any level, whose text holds no NUL makes exactly one native write.
C8_NoFiltering ==
    /\ (last.op \in InitOps /\ last.res = "Ok") =>
           \A l \in Levels : LevelRank(l) <= FilterRank(MAX_LOG_LEVEL_FILTER)
    /\ LOG_STATE = "INITIALIZED" => MAX_LOG_LEVEL_FILTER = "Trace"
    /\ last.op = "enabled" => last.res = "true"
    /\ (last.op = "macro" /\ LOG_STATE = "INITIALIZED"
          /\ ~HasNul(Render(LOGGER[1].format, last.rec[1]))) => Len(written) = 1

\* C8 witness: after an install a Trace record was logged and written once.
C8_Witness ==
    /\ last.op = "macro" /\ LOG_STATE = "INITIALIZED"
    /\ last.rec[1].level = "Trace"
    /\ Len(written) = 1

C10_Frame ==
    /\ [][registration' # registration => last'.op \in InitOps]_vars
    /\ [][last'.op = "enabled" => UNCHANGED <<app, registration>>]_vars
    /\ [][(last.op = "enabled" /\ last'.op = "enabled" /\ last'.rec = last.rec)
             => last'.res = last.res]_vars
    /\ [](last.op = "LogBuilder::build" => (last.res = "Ok" /\ logger # None /\ builder = None))

\* C10 witness: with a logger installed, a builder was built into a logger.
C10_Witness ==
    /\ last.op = "LogBuilder::build" /\ last.res = "Ok"
    /\ LOG_STATE = "INITIALIZED"
    /\ logger # None /\ logger # LOGGER

====
